---- MODULE Spec2Model ----
(***************************************************************************)
(* Model of the endpoint prober (src/test_endpoints.py) and of the         *)
(* fallback caller (src/services/fallback_service.py).                     *)
(*                                                                         *)
(* Strings are sequences of tokens.  A value read from the environment is  *)
(* None (the variable is absent) or Some(s).  What the external services   *)
(* do (the HTTP layer, the lazy imports, the Azure SDK, the completion     *)
(* endpoint) is a nondeterministic input of the step that calls them.      *)
(***************************************************************************)
EXTENDS Integers, Sequences, FiniteSets, TLC

VARIABLES env, caller, pc, results, last, calls, passed, failed, mainRet,
          exitCode, fpc, fin, events, fout

vars == <<env, caller, pc, results, last, calls, passed, failed, mainRet,
          exitCode, fpc, fin, events, fout>>

proberVars == <<env, caller, pc, results, last, calls, passed, failed,
                mainRet, exitCode>>

fallbackVars == <<fpc, fin, events, fout>>

----------------------------------------------------------------------------
(* Bounds *)

\* longest telemetry connection string, in tokens
MaxConnLen == 5

\* longest prompt handed to the fallback caller, in tokens
MaxPromptLen == 2

\* most choices in a completion reply
MaxChoices == 2

----------------------------------------------------------------------------
(* Python values *)

None == << >>

Some(s) == << s >>

\* bool(v) of a value read with os.getenv: None and "" are falsy
Truthy(v) == v # None /\ v[1] # << >>

\* all([...]) over a set of environment variable names
AllSet(names) == \A n \in names : Truthy(env[n])

RECURSIVE lstrip(_)
lstrip(s) == IF s # << >> /\ Head(s) = " " THEN lstrip(Tail(s)) ELSE s

RECURSIVE rstrip(_)
rstrip(s) ==
    IF s # << >> /\ s[Len(s)] = " " THEN rstrip(SubSeq(s, 1, Len(s) - 1)) ELSE s

\* str.strip()
strip(s) == rstrip(lstrip(s))

\* sep in s
Contains(s, sep) == \E i \in 1..Len(s) : s[i] = sep

\* index of the first sep in s (s contains sep)
FirstIndex(s, sep) == CHOOSE i \in 1..Len(s) : s[i] = sep /\ \A j \in 1..(i - 1) : s[j] # sep

\* str.split(sep): Len = number of separators + 1
RECURSIVE split(_, _)
split(s, sep) ==
    IF ~Contains(s, sep) THEN << s >>
    ELSE LET i == FirstIndex(s, sep)
         IN  << SubSeq(s, 1, i - 1) >> \o split(SubSeq(s, i + 1, Len(s)), sep)

\* item.split(sep, 1)[0] of an item that contains sep
SplitKey(item, sep) == SubSeq(item, 1, FirstIndex(item, sep) - 1)

\* keys of dict(item.split("=", 1) for item in conn.split(";") if "=" in item)
PartsKeys(conn) ==
    LET items == split(conn, ";")
    IN  { SplitKey(items[i], "=") : i \in { j \in 1..Len(items) : Contains(items[j], "=") } }

----------------------------------------------------------------------------
(* Environment *)

OpenAIVars == {"AZURE_OPENAI_ENDPOINT", "AZURE_OPENAI_KEY", "AZURE_OPENAI_API_VERSION"}

SearchVars == {"SEARCH_ENDPOINT", "SEARCH_KEY", "INDEX_NAME"}

CosmosVars == {"COSMOS_ENDPOINT", "DATABASE_NAME"}

StorageVars == {"storage_account_name", "storage_container_name"}

InsightsVars == {"APPLICATIONINSIGHTS_CONNECTION_STRING"}

\* the agents dict, in insertion order: display name, environment variable
agents == << <<"Customer Loyalty", "customer_loyalty">>,
             <<"Inventory Agent", "inventory_agent">>,
             <<"Interior Designer", "interior_designer">>,
             <<"Cora (Shopper)", "cora">>,
             <<"Cart Manager", "cart_manager">> >>

AgentVars == { agents[i][2] : i \in 1..Len(agents) }

EnvVars == OpenAIVars \cup SearchVars \cup CosmosVars \cup StorageVars
             \cup InsightsVars \cup AgentVars

\* values of an ordinary variable: absent, empty, whitespace, set
PlainValues == { None, Some(<< >>), Some(<<" ">>), Some(<<"x">>), Some(<<" ", "x">>) }

ConnTokens == {"InstrumentationKey", "IngestionEndpoint", "=", ";", "x"}

ConnStrings == UNION { [1..n -> ConnTokens] : n \in 0..MaxConnLen }

ConnValues == { None } \cup { Some(s) : s \in ConnStrings }

\* the results dict of main(), in insertion order
CheckOrder == <<"Azure OpenAI", "AI Search", "Cosmos DB", "Storage Account",
                "Application Insights", "Agent IDs">>

CheckNames == { CheckOrder[i] : i \in 1..Len(CheckOrder) }

Required(check) ==
    CASE check = "Azure OpenAI" -> OpenAIVars
      [] check = "AI Search" -> SearchVars
      [] check = "Cosmos DB" -> CosmosVars
      [] check = "Storage Account" -> StorageVars
      [] check = "Application Insights" -> InsightsVars
      [] check = "Agent IDs" -> {"customer_loyalty"}

Read(check) == IF check = "Agent IDs" THEN AgentVars ELSE Required(check)

----------------------------------------------------------------------------
(* What a check does: it returns a boolean or lets an exception escape.    *)
(* calls is the log of the external operations the check attempted.        *)

Return(b, log) == [exc |-> "none", ret |-> b, calls |-> log]

Raise(e, log) == [exc |-> e, ret |-> FALSE, calls |-> log]

\* status from which a response counts as a server error
ServerError == 500

StatusCodes == {200, 401, 403, 404, 499, 500, 503}

\* what requests.get does: a response, a requests.exceptions.RequestException,
\* or an exception of another class
HttpOutcomes ==
    { [kind |-> "response", status |-> s] : s \in StatusCodes }
      \cup { [kind |-> "RequestException", status |-> 0],
             [kind |-> "OtherException", status |-> 0] }

NoHttp == [kind |-> "none", status |-> 0]

\* what a function-level import does
ImportOutcomes == {"ok", "ImportError"}

CosmosSteps == <<"DefaultAzureCredential", "CosmosClient", "get_database_client",
                 "database.read">>

StorageSteps == <<"DefaultAzureCredential", "BlobServiceClient",
                  "get_container_client", "get_container_properties">>

\* what the SDK does: 0 when every step succeeds, else the step that raises
SdkOutcomes == 0..Len(CosmosSteps)

\* Faulty variant: a 500 counts as reachable
test_endpoint_inclusive(http) ==
    IF http.kind = "response"
    THEN Return(http.status <= ServerError, <<"requests.get">>)
    ELSE IF http.kind = "RequestException"
         THEN Return(FALSE, <<"requests.get">>)
         ELSE Raise(http.kind, <<"requests.get">>)

test_endpoint(http) ==
    IF http.kind = "response"
    THEN Return(http.status < ServerError, <<"requests.get">>)
    ELSE IF http.kind = "RequestException"
         THEN Return(FALSE, <<"requests.get">>)
         ELSE Raise(http.kind, <<"requests.get">>)

test_azure_openai(http) ==
    IF ~AllSet(OpenAIVars) THEN Return(FALSE, << >>) ELSE test_endpoint(http)

test_ai_search(http) ==
    IF ~AllSet(SearchVars) THEN Return(FALSE, << >>) ELSE test_endpoint(http)

\* try: the SDK steps in order; except Exception: return False
SdkTry(steps, failAt) ==
    IF failAt = 0 THEN Return(TRUE, steps)
    ELSE Return(FALSE, SubSeq(steps, 1, failAt))

test_cosmos_db(imp, sdk) ==
    IF imp # "ok" THEN Raise(imp, << >>)
    ELSE IF ~AllSet(CosmosVars) THEN Return(FALSE, << >>)
         ELSE SdkTry(CosmosSteps, sdk)

test_storage_account(imp, sdk) ==
    IF imp # "ok" THEN Raise(imp, << >>)
    ELSE IF ~AllSet(StorageVars) THEN Return(FALSE, << >>)
         ELSE SdkTry(StorageSteps, sdk)

\* Faulty variant: one of the two keys is enough
test_application_insights_either ==
    LET conn_string == env["APPLICATIONINSIGHTS_CONNECTION_STRING"]
    IN  IF ~Truthy(conn_string) THEN Return(FALSE, << >>)
        ELSE LET parts == PartsKeys(conn_string[1])
             IN  Return(<<"InstrumentationKey">> \in parts
                          \/ <<"IngestionEndpoint">> \in parts, << >>)

test_application_insights ==
    LET conn_string == env["APPLICATIONINSIGHTS_CONNECTION_STRING"]
    IN  IF ~Truthy(conn_string) THEN Return(FALSE, << >>)
        ELSE LET parts == PartsKeys(conn_string[1])
             IN  Return(<<"InstrumentationKey">> \in parts
                          /\ <<"IngestionEndpoint">> \in parts, << >>)

\* agent_id and agent_id.strip()
Configured(agent_id) == Truthy(agent_id) /\ strip(agent_id[1]) # << >>

\* Faulty variant: any agent that is not configured fails the check
RECURSIVE AgentLoop_any(_, _)
AgentLoop_any(i, all_configured) ==
    IF i > Len(agents) THEN all_configured
    ELSE IF Configured(env[agents[i][2]]) THEN AgentLoop_any(i + 1, all_configured)
         ELSE AgentLoop_any(i + 1, FALSE)

\* the loop over agents.items(), from entry i on, all_configured so far
RECURSIVE AgentLoop(_, _)
AgentLoop(i, all_configured) ==
    IF i > Len(agents) THEN all_configured
    ELSE IF Configured(env[agents[i][2]]) THEN AgentLoop(i + 1, all_configured)
         ELSE IF agents[i][1] = "Customer Loyalty" THEN AgentLoop(i + 1, FALSE)
              ELSE AgentLoop(i + 1, all_configured)

test_agent_ids == Return(AgentLoop(1, TRUE), << >>)

----------------------------------------------------------------------------
(* Running a check: from main(), where the result goes into the results    *)
(* dict and an escaping exception ends the process, or called directly.    *)

IndexOf(check) == CHOOSE i \in 1..Len(CheckOrder) : CheckOrder[i] = check

NextPc(check) ==
    IF IndexOf(check) = Len(CheckOrder) THEN "summary"
    ELSE CheckOrder[IndexOf(check) + 1]

Invoke(check, res, http) ==
    /\ last' = [check |-> check, exc |-> res.exc, ret |-> res.ret,
                calls |-> res.calls,
                http |-> IF res.calls = << >> THEN NoHttp ELSE http]
    /\ calls' = calls \o res.calls
    /\ IF caller = "main"
       THEN IF res.exc = "none"
            THEN /\ results' = Append(results, <<check, res.ret>>)
                 /\ pc' = NextPc(check)
                 /\ UNCHANGED exitCode
            ELSE /\ pc' = "crashed"
                 /\ exitCode' = 1
                 /\ UNCHANGED results
       ELSE /\ pc' = IF res.exc = "none" THEN "returned" ELSE "raised"
            /\ UNCHANGED <<results, exitCode>>
    /\ UNCHANGED <<env, caller, passed, failed, mainRet>>
    /\ UNCHANGED fallbackVars

run_azure_openai ==
    /\ pc = "Azure OpenAI"
    /\ \E http \in HttpOutcomes :
           Invoke("Azure OpenAI", test_azure_openai(http), http)

run_ai_search ==
    /\ pc = "AI Search"
    /\ \E http \in HttpOutcomes :
           Invoke("AI Search", test_ai_search(http), http)

run_cosmos_db ==
    /\ pc = "Cosmos DB"
    /\ \E imp \in ImportOutcomes, sdk \in SdkOutcomes :
           Invoke("Cosmos DB", test_cosmos_db(imp, sdk), NoHttp)

run_storage_account ==
    /\ pc = "Storage Account"
    /\ \E imp \in ImportOutcomes, sdk \in SdkOutcomes :
           Invoke("Storage Account", test_storage_account(imp, sdk), NoHttp)

run_application_insights ==
    /\ pc = "Application Insights"
    /\ Invoke("Application Insights", test_application_insights, NoHttp)

run_agent_ids ==
    /\ pc = "Agent IDs"
    /\ Invoke("Agent IDs", test_agent_ids, NoHttp)

\* sum(1 for v in results.values() if v)
Passed(rs) == Cardinality({ i \in 1..Len(rs) : rs[i][2] })

\* Faulty variant: any(results.values())
AnyPassed(rs) == \E i \in 1..Len(rs) : rs[i][2]

\* all(results.values())
AllPassed(rs) == \A i \in 1..Len(rs) : rs[i][2]

main_summary ==
    /\ pc = "summary"
    /\ passed' = Passed(results)
    /\ failed' = Len(results) - Passed(results)
    /\ mainRet' = IF AllPassed(results) THEN 0 ELSE 1
    /\ exitCode' = mainRet'
    /\ pc' = "done"
    /\ UNCHANGED <<env, caller, results, last, calls>>
    /\ UNCHANGED fallbackVars

----------------------------------------------------------------------------
(* Fallback caller.  events is the log of the external operations of one   *)
(* invocation, in order.                                                   *)

PromptTokens == {"a", " "}

Prompts == UNION { [1..n -> PromptTokens] : n \in 0..MaxPromptLen }

\* the gpt_deployment argument: None when the caller leaves it out
Deployments == { None, Some("custom-deployment") }

Texts == {"reply A", "reply B"}

ChoiceLists == UNION { [1..n -> Texts] : n \in 0..MaxChoices }

\* completion.usage: None or the prompt, completion and total token counts
Usages == { None, Some(<<3, 5, 8>>) }

\* what llm_client.chat.completions.create does: it returns a completion or
\* raises
CompletionOutcomes ==
    { [kind |-> "reply", choices |-> c, usage |-> u, error |-> "none"] :
        c \in ChoiceLists, u \in Usages }
      \cup { [kind |-> "error", choices |-> << >>, usage |-> None, error |-> e] :
               e \in {"AuthenticationError", "APIConnectionError"} }

Ev(op, a, b) == [op |-> op, a |-> a, b |-> b]

\* Faulty variant: the prompt is stripped before it is sent
ChatPrompt_stripped(fallback_prompt) ==
    << [role |-> "system",
        content |-> << [type |-> "text", text |-> strip(fallback_prompt)] >>] >>

\* chat_prompt: one system message holding one text block
ChatPrompt(fallback_prompt) ==
    << [role |-> "system",
        content |-> << [type |-> "text", text |-> fallback_prompt] >>] >>

CallParams == { <<"temperature", "0.7">>, <<"stream", "False">> }

CoraParams == { <<"temperature", "0.7">>, <<"top_p", "0.95">>,
                <<"frequency_penalty", "0">>, <<"presence_penalty", "0">>,
                <<"stop", "None">>, <<"stream", "False">> }

Request(model, messages, params) ==
    [model |-> model, messages |-> messages, params |-> params]

Outcome(evs, req, status, value) ==
    [events |-> evs, request |-> req, status |-> status, value |-> value]

\* Faulty variant: the last choice instead of the first
FirstChoice_last(completion) ==
    IF completion.choices = << >> THEN [ok |-> FALSE, value |-> "IndexError"]
    ELSE [ok |-> TRUE, value |-> completion.choices[Len(completion.choices)]]

\* completion.choices[0].message.content, or the error that reading it raises
FirstChoice(completion) ==
    IF completion.choices = << >> THEN [ok |-> FALSE, value |-> "IndexError"]
    ELSE [ok |-> TRUE, value |-> completion.choices[1]]

\* Faulty variant: a failed completion call is tried a second time and its error wrapped
call_fallback_retry(fallback_prompt, deployment, completion) ==
    LET gpt_deployment == IF deployment = None THEN "gpt-5-mini" ELSE deployment[1]
        req == Request(gpt_deployment, ChatPrompt(fallback_prompt), CallParams)
        create == << Ev("chat.completions.create", gpt_deployment, "") >>
        result == FirstChoice(completion)
    IN  IF completion.kind = "error"
        THEN Outcome(create \o create, req, "raised", "FallbackError")
        ELSE IF ~result.ok
             THEN Outcome(create, req, "raised", result.value)
             ELSE Outcome(create \o << Ev("log_timing", "Fallback Call", gpt_deployment) >>,
                          req, "returned", result.value)

call_fallback_fn(fallback_prompt, deployment, completion) ==
    LET gpt_deployment == IF deployment = None THEN "gpt-5-mini" ELSE deployment[1]
        req == Request(gpt_deployment, ChatPrompt(fallback_prompt), CallParams)
        create == << Ev("chat.completions.create", gpt_deployment, "") >>
        result == FirstChoice(completion)
    IN  IF completion.kind = "error"
        THEN Outcome(create, req, "raised", completion.error)
        ELSE IF ~result.ok
             THEN Outcome(create, req, "raised", result.value)
             ELSE Outcome(create \o << Ev("log_timing", "Fallback Call", gpt_deployment) >>,
                          req, "returned", result.value)

\* The trace_function decorator is taken to hand on what the function returns
\* or raises.
cora_fallback_fn(fallback_prompt, deployment, completion) ==
    LET gpt_deployment == IF deployment = None THEN "Phi-4" ELSE deployment[1]
        req == Request(gpt_deployment, ChatPrompt(fallback_prompt), CoraParams)
        create == << Ev("logger.info", "Calling Cora fallback", gpt_deployment),
                     Ev("chat.completions.create", gpt_deployment, "") >>
        result == FirstChoice(completion)
    IN  IF completion.kind = "error"
        THEN Outcome(create, req, "raised", completion.error)
        ELSE IF ~result.ok
             THEN Outcome(create, req, "raised", result.value)
             ELSE Outcome(create
                            \o << Ev("logger.info", "Phi-4 Cora fallback completed",
                                     completion.usage),
                                  Ev("log_timing", "Cora Fallback Call", gpt_deployment) >>,
                          req, "returned", result.value)

FallbackStep(variant, fallback_prompt, deployment, completion, out) ==
    /\ fin' = [variant |-> variant, prompt |-> fallback_prompt,
               deployment |-> deployment, completion |-> completion]
    /\ events' = events \o out.events
    /\ fout' = [request |-> out.request, status |-> out.status, value |-> out.value]
    /\ fpc' = out.status
    /\ UNCHANGED proberVars

call_fallback ==
    /\ fpc = "idle"
    /\ \E fallback_prompt \in Prompts, deployment \in Deployments,
          completion \in CompletionOutcomes :
           FallbackStep("call_fallback", fallback_prompt, deployment, completion,
                        call_fallback_fn(fallback_prompt, deployment, completion))

cora_fallback ==
    /\ fpc = "idle"
    /\ \E fallback_prompt \in Prompts, deployment \in Deployments,
          completion \in CompletionOutcomes :
           FallbackStep("cora_fallback", fallback_prompt, deployment, completion,
                        cora_fallback_fn(fallback_prompt, deployment, completion))

----------------------------------------------------------------------------
(* Initial states *)

NoLast == [check |-> "none", exc |-> "none", ret |-> FALSE, calls |-> << >>,
           http |-> NoHttp]

FallbackIdle ==
    /\ fpc = "idle"
    /\ fin = << >>
    /\ events = << >>
    /\ fout = << >>

ProberFresh ==
    /\ results = << >>
    /\ last = NoLast
    /\ calls = << >>
    /\ passed = -1
    /\ failed = -1
    /\ mainRet = -1
    /\ exitCode = -1

ValidConn == <<"InstrumentationKey", "=", "x", ";", "IngestionEndpoint", "=", "x">>

KeyOnlyConn == <<"InstrumentationKey", "=", "x">>

\* environments of a whole run: the checks in M lack their configuration
MainEnv(M, conn, loyalty, other) ==
    [v \in EnvVars |->
        IF v \in InsightsVars THEN conn
        ELSE IF v = "customer_loyalty" THEN loyalty
        ELSE IF v \in AgentVars THEN other
        ELSE IF \E c \in M : v \in Required(c) THEN None
        ELSE Some(<<"x">>)]

MainEnvs ==
    { MainEnv(M, conn, loyalty, other) :
        M \in SUBSET {"Azure OpenAI", "AI Search", "Cosmos DB", "Storage Account"},
        conn \in {None, Some(ValidConn), Some(KeyOnlyConn)},
        loyalty \in {None, Some(<<" ">>), Some(<<"x">>)},
        other \in {None, Some(<<"x">>)} }

\* environments of one check called directly: every value of what it reads
DirectEnvs(check) ==
    { [v \in EnvVars |-> IF v \in Read(check) THEN f[v] ELSE None] :
        f \in [Read(check) -> IF check = "Application Insights"
                              THEN ConnValues ELSE PlainValues] }

InitMain ==
    /\ caller = "main"
    /\ env \in MainEnvs
    /\ pc = CheckOrder[1]
    /\ ProberFresh
    /\ FallbackIdle

InitCheck ==
    /\ caller = "direct"
    /\ pc \in CheckNames
    /\ env \in DirectEnvs(pc)
    /\ ProberFresh
    /\ FallbackIdle

NextMain ==
    \/ run_azure_openai
    \/ run_ai_search
    \/ run_cosmos_db
    \/ run_storage_account
    \/ run_application_insights
    \/ run_agent_ids
    \/ main_summary

NextCheck ==
    \/ run_azure_openai
    \/ run_ai_search
    \/ run_cosmos_db
    \/ run_storage_account
    \/ run_application_insights
    \/ run_agent_ids

SpecMain == InitMain /\ [][NextMain]_vars

SpecCheck == InitCheck /\ [][NextCheck]_vars

InitFallback ==
    /\ caller = "none"
    /\ env = [v \in EnvVars |-> None]
    /\ pc = "idle"
    /\ ProberFresh
    /\ FallbackIdle

NextFallback ==
    \/ call_fallback
    \/ cora_fallback

SpecFallback == InitFallback /\ [][NextFallback]_vars

----------------------------------------------------------------------------
(* Properties *)

Finished == pc \in {"returned", "raised"}

\* the six checks each returned True
SixTrue == \A c \in CheckNames : \E i \in 1..Len(results) : results[i] = <<c, TRUE>>

\* C1: main() returns 0 if and only if all six checks returned true, and 1 in
\* every other combination of the six results; the process exit code is the
\* value main() returned.
C1_ExitCodeIffAllTrue ==
    /\ (mainRet = 0) <=> (pc = "done" /\ SixTrue)
    /\ pc = "done" =>
          /\ Len(results) = 6
          /\ mainRet = (IF SixTrue THEN 0 ELSE 1)
          /\ exitCode = mainRet
    /\ pc # "done" => mainRet = -1

C1_Witness == pc = "done" /\ SixTrue /\ mainRet = 0

\* C2: no exception escapes a check: every check ends by returning a boolean
\* and main() is never ended by an exception.
C2_NoExceptionEscapes == last.exc = "none" /\ pc # "crashed"

\* a value the check requires is absent from the environment
ConfigAbsent(check) == \E n \in Required(check) : env[n] = None

\* C3: a check that finds required configuration absent returns False and
\* attempts no external call.
C3_AbsentConfigReturnsFalse ==
    (Finished /\ ConfigAbsent(last.check)) =>
        (pc = "returned" /\ ~last.ret /\ last.calls = << >>)

HttpChecks == {"Azure OpenAI", "AI Search"}

Blank(v) == v = None \/ \A i \in 1..Len(v[1]) : v[1][i] = " "

\* C5: the agent-identifier check returns False if and only if
\* customer_loyalty is absent, empty or whitespace only, whatever the other
\* four identifiers are.
C5_OnlyCustomerLoyalty ==
    (Finished /\ last.check = "Agent IDs") =>
        /\ pc = "returned"
        /\ ~last.ret <=> Blank(env["customer_loyalty"])

C5_Witness ==
    /\ pc = "returned"
    /\ last.check = "Agent IDs"
    /\ last.ret
    /\ \A v \in AgentVars \ {"customer_loyalty"} : Blank(env[v])

\* the string holds an item that starts with key and "="
HasItem(v, key) ==
    /\ v # None
    /\ \E i \in 1..(Len(v[1]) - 1) :
          /\ v[1][i] = key
          /\ v[1][i + 1] = "="
          /\ (i = 1 \/ v[1][i - 1] = ";")

\* C6: the telemetry check returns True when the connection string holds an
\* InstrumentationKey= item and an IngestionEndpoint= item, False when either
\* is missing, and attempts no external call.
C6_BothKeys ==
    (Finished /\ last.check = "Application Insights") =>
        /\ pc = "returned"
        /\ last.calls = << >>
        /\ last.ret <=>
              (HasItem(env["APPLICATIONINSIGHTS_CONNECTION_STRING"], "InstrumentationKey")
                 /\ HasItem(env["APPLICATIONINSIGHTS_CONNECTION_STRING"], "IngestionEndpoint"))

C6_Witness ==
    /\ pc = "returned"
    /\ last.check = "Application Insights"
    /\ last.ret

\* positions of an operation in the event log
EventsOf(op) == { i \in 1..Len(events) : events[i].op = op }

\* C7: when the completion endpoint returns a reply, the fallback caller
\* returns the text of the reply's first choice and makes exactly one
\* log_timing call, after the completion call.
C7_FirstChoiceOneTiming ==
    (fpc # "idle" /\ fin.completion.kind = "reply" /\ fin.completion.choices # << >>) =>
        /\ fpc = "returned"
        /\ fout.value = fin.completion.choices[1]
        /\ Cardinality(EventsOf("log_timing")) = 1
        /\ \A i \in EventsOf("log_timing"), j \in EventsOf("chat.completions.create") : j < i

C7_Witness ==
    /\ fpc = "returned"
    /\ fin.variant = "cora_fallback"
    /\ Len(fin.completion.choices) = 2
    /\ fin.completion.choices[1] # fin.completion.choices[2]

\* C8: the completion endpoint is called exactly once per invocation, and a
\* failure it raises is what the caller receives.
C8_NoRetry ==
    fpc # "idle" =>
        /\ Cardinality(EventsOf("chat.completions.create")) = 1
        /\ fin.completion.kind = "error" =>
              (fpc = "raised" /\ fout.value = fin.completion.error)

C8_Witness ==
    /\ fpc = "raised"
    /\ fin.variant = "call_fallback"
    /\ fin.completion.kind = "error"

\* the text of the single system message of the request sent
SentText == fout.request.messages[1].content[1].text

\* C9 as stated: every request carries a non-empty prompt.
C9_NonEmptyPrompt == fpc # "idle" => SentText # << >>

\* C9 amended: the request carries the input prompt unchanged as the one
\* text block of one system message, so its text is empty exactly when the
\* input prompt is empty.
C9_PromptForwarded ==
    fpc # "idle" =>
        /\ Len(fout.request.messages) = 1
        /\ fout.request.messages[1].role = "system"
        /\ Len(fout.request.messages[1].content) = 1
        /\ SentText = fin.prompt

C9_Witness == fpc # "idle" /\ fin.prompt = <<" ", "a">> /\ SentText = <<" ", "a">>

\* C10: every run of main() executes the six checks once each in the declared
\* order, the results dict holds six entries, and the printed passed and
\* failed counts add up to six.
C10_SixInOrder ==
    pc \in {"done", "crashed"} =>
        /\ [i \in 1..Len(results) |-> results[i][1]] = CheckOrder
        /\ passed + failed = 6

====
